---- MODULE Spec2Model ----
(***************************************************************************)
(* Contest cache and refresh engine of the SST Lounge bot:                 *)
(*   core/database.py            SimpleDB (contest_cache table, one shared *)
(*                               aiosqlite connection)                     *)
(*   features/contests/contests.py  ContestAPI, ContestCommands            *)
(*                                                                         *)
(* Time is counted in minutes.  `now` is the UTC instant; the host's       *)
(* local wall clock (datetime.now()) is now + tz.  ISO-8601 texts are      *)
(* modelled as sequences <<day, minuteOfDay>> (a date-only text is         *)
(* <<day>>) compared the way SQLite compares TEXT: lexicographically.      *)
(***************************************************************************)
EXTENDS Integers, Sequences, FiniteSets, TLC

\* ------------------------------------------------------------------ bounds
MaxBatch == 2          \* longest list the source API returns in one fetch
MaxClock == 3          \* number of clock ticks in a behaviour
MaxStoreLen == 2       \* longest list handed to cache_contests
MaxAgeHours == 2       \* is_cache_stale is evaluated for max_age_hours 1..MaxAgeHours and the default
TickHours == 3         \* hours the modelled clock advances in one step

\* -------------------------------------------------------- program constants
MinutesPerDay == 1440
MinutesPerHour == 60
IstOffsetMinutes == 330        \* pytz 'Asia/Kolkata' = UTC+05:30
DefaultMaxAgeHours == 6        \* is_cache_stale(max_age_hours=6)
TickMinutes == TickHours * MinutesPerHour

\* Host time zones the bot may run in (datetime.now() is naive local time):
\* UTC-05:00, UTC, and UTC+05:30.
TzOffsets == {0 - 5 * MinutesPerHour, 0, IstOffsetMinutes}

\* Statuses the API answers with when it does not answer 200, and the larger
\* set the API client is tried on alone.
HttpErrors == {401, 429, 500}
HttpStatuses == HttpErrors \cup {404, 503}

\* A classification that reports every failure as a rate limit.
ErrorKindAlwaysRateLimited(status) == [kind |-> "API_RATE_LIMITED", status |-> status]

\* The exception fetch_upcoming_contests and fetch_todays_contests raise for a
\* status other than 200: Exception("API_UNAUTHORIZED"), Exception("API_RATE_LIMITED"),
\* Exception(f"API_ERROR_{status}").  The except clause re-raises it.
ErrorKind(status) ==
    CASE status = 401 -> [kind |-> "API_UNAUTHORIZED", status |-> status]
      [] status = 429 -> [kind |-> "API_RATE_LIMITED", status |-> status]
      [] OTHER -> [kind |-> "API_ERROR", status |-> status]

\* ------------------------------------------------------------ text helpers
Min(a, b) == IF a < b THEN a ELSE b

\* SQLite TEXT comparison (BINARY collation): lexicographic, a proper prefix is smaller.
TextLess(a, b) ==
    \E i \in 1..(Min(Len(a), Len(b)) + 1) :
        /\ \A j \in 1..(i - 1) : a[j] = b[j]
        /\ \/ (i > Len(a) /\ i <= Len(b))
           \/ (i <= Len(a) /\ i <= Len(b) /\ a[i] < b[i])

\* A faulty comparison that reads a bare date as the midnight that begins it.
TextLeqAsInstants(a, b) ==
    LET pad(t) == IF Len(t) = 1 THEN <<t[1], 0>> ELSE t
    IN  pad(a) = pad(b) \/ TextLess(pad(a), pad(b))

TextLeq(a, b) == a = b \/ TextLess(a, b)

\* datetime.isoformat() of a naive datetime with whole minutes.
IsoFormat(w) == <<w \div MinutesPerDay, w % MinutesPerDay>>

\* datetime.fromisoformat() of such a text.
FromIso(t) == t[1] * MinutesPerDay + t[2]

\* strftime('%B %d, %Y at %I:%M %p IST') of a wall-clock time, and the
\* strptime that reads it back after ' IST' is removed.
FormatDisplay(w) == [wall |-> w, zone |-> "IST"]
ParseDisplay(s) == s.wall

\* -------------------------------------------------------------- normalizer
KnownKeys == {"codeforces.com", "codechef.com", "atcoder.jp", "leetcode.com"}

\* A faulty lookup that hands the key on as the name.
KeyAsName(key) == key

PlatformNameFromKey(key) ==
    CASE key = "codeforces.com" -> "Codeforces"
      [] key = "codechef.com"   -> "CodeChef"
      [] key = "atcoder.jp"     -> "AtCoder"
      [] key = "leetcode.com"   -> "LeetCode"
      [] OTHER                  -> key

\* str.lower() on the platform display names and on the keys of the model
\* (every other text of the model is in lower case already).
Lower(name) ==
    CASE name = "Codeforces"   -> "codeforces"
      [] name = "CodeChef"     -> "codechef"
      [] name = "AtCoder"      -> "atcoder"
      [] name = "LeetCode"     -> "leetcode"
      [] name = "TopCoder.com" -> "topcoder.com"
      [] OTHER                 -> name

\* _get_platform_key_from_name: platform_map.get(platform_name, platform_name.lower())
PlatformKeyFromName(name) ==
    CASE name = "Codeforces" -> "codeforces.com"
      [] name = "CodeChef"   -> "codechef.com"
      [] name = "AtCoder"    -> "atcoder.jp"
      [] name = "LeetCode"   -> "leetcode.com"
      [] OTHER               -> Lower(name)

\* A formatter of the read path that renders a duration of zero as zero minutes.
FormatDurationFromSecondsZero(seconds) ==
    LET hours == seconds \div 3600
        minutes == (seconds % 3600) \div 60
    IN  IF hours # 0 /\ minutes # 0 THEN [form |-> "{h}h {m}m", h |-> hours, m |-> minutes]
        ELSE IF hours # 0 THEN [form |-> "{h}h", h |-> hours, m |-> 0]
        ELSE [form |-> "{m}m", h |-> 0, m |-> minutes]

\* SimpleDB._format_duration_from_seconds
FormatDurationFromSeconds(seconds) ==
    LET hours == seconds \div 3600
        minutes == (seconds % 3600) \div 60
    IN  IF seconds = 0 THEN [form |-> "Unknown", h |-> 0, m |-> 0]
        ELSE IF hours # 0 /\ minutes # 0 THEN [form |-> "{h}h {m}m", h |-> hours, m |-> minutes]
        ELSE IF hours # 0 THEN [form |-> "{h}h", h |-> hours, m |-> 0]
        ELSE IF minutes # 0 THEN [form |-> "{m}m", h |-> 0, m |-> minutes]
        ELSE [form |-> "< 1m", h |-> 0, m |-> 0]

\* ContestAPI._format_duration
FormatDuration(seconds) ==
    LET hours == seconds \div 3600
        minutes == (seconds % 3600) \div 60
    IN  IF seconds = 0 THEN [form |-> "Unknown", h |-> 0, m |-> 0]
        ELSE IF hours # 0 /\ minutes # 0 THEN [form |-> "{h}h {m}m", h |-> hours, m |-> minutes]
        ELSE IF hours # 0 THEN [form |-> "{h}h", h |-> hours, m |-> 0]
        ELSE IF minutes # 0 THEN [form |-> "{m}m", h |-> 0, m |-> minutes]
        ELSE [form |-> "< 1m", h |-> 0, m |-> 0]

\* Raw records of the source API (clist.by objects): start is a UTC instant.
RawAlpha == [event |-> "Alpha", resource |-> "codeforces.com", start |-> 600, duration |-> 7200, href |-> "u1"]
RawBeta == [event |-> "Beta", resource |-> "codechef.com", start |-> 1560, duration |-> 0, href |-> ""]
RawPool == {RawAlpha, RawBeta}

\* A record of the API that lacks a duration, one that lacks its start (the
\* try body of _process_contests raises KeyError on it), and a second
\* occurrence of the event of RawAlpha one clock step after the epoch, lasting
\* one clock step.
RawDelta == [event |-> "Delta", resource |-> "leetcode.com", start |-> 2000, href |-> "u4"]
RawNoStart == [event |-> "Epsilon", resource |-> "atcoder.jp", duration |-> 3600, href |-> "u5"]
RawAlphaEarly ==
    [event |-> "Alpha", resource |-> "codeforces.com", start |-> TickMinutes,
     duration |-> TickMinutes * 60, href |-> "u6"]
RawRecords == RawPool \cup {RawDelta, RawNoStart, RawAlphaEarly}

\* contest.get('duration', 0) and contest.get('href', '')
RawDuration(raw) == IF "duration" \in DOMAIN raw THEN raw.duration ELSE 0
RawHref(raw) == IF "href" \in DOMAIN raw THEN raw.href ELSE ""

\* The records on which the try body of _process_contests completes:
\* contest['start'], contest['event'] and contest['resource'] are present.
Processable(raw) == {"start", "event", "resource"} \subseteq DOMAIN raw

\* A faulty normalizer of one record: its end comes before its start.
ProcessContestEndBeforeStart(raw) ==
    [id |-> <<raw.resource, raw.event>>,
     name |-> raw.event,
     platform |-> PlatformNameFromKey(raw.resource),
     start_time |-> FormatDisplay(raw.start + IstOffsetMinutes),
     end_time |-> FormatDisplay(raw.start - 1 + IstOffsetMinutes),
     duration |-> FormatDuration(RawDuration(raw)),
     duration_seconds |-> RawDuration(raw),
     url |-> RawHref(raw),
     platform_key |-> raw.resource]

\* _process_contests on one record the try body completes on.
ProcessContest(raw) ==
    [id |-> <<raw.resource, raw.event>>,
     name |-> raw.event,
     platform |-> PlatformNameFromKey(raw.resource),
     start_time |-> FormatDisplay(raw.start + IstOffsetMinutes),
     end_time |-> FormatDisplay(raw.start + (RawDuration(raw) \div 60) + IstOffsetMinutes),
     duration |-> FormatDuration(RawDuration(raw)),
     duration_seconds |-> RawDuration(raw),
     url |-> RawHref(raw),
     platform_key |-> raw.resource]

\* A faulty normalizer that stops at the first record that raises.
ProcessContestsAborting(raws) ==
    LET bad == {i \in 1..Len(raws) : ~Processable(raws[i])}
        stop == IF bad = {} THEN Len(raws) + 1
                ELSE CHOOSE i \in bad : \A j \in bad : i <= j
    IN  [i \in 1..(stop - 1) |-> ProcessContest(raws[i])]

\* _process_contests: a record that raises is logged and skipped.
ProcessContests(raws) ==
    LET good == SelectSeq(raws, Processable)
    IN  [i \in 1..Len(good) |-> ProcessContest(good[i])]

SeqsUpTo(S, n) == UNION {[1..k -> S] : k \in 0..n}

\* The lists the API can answer with status 200: the request says
\* order_by=start, so a list is in ascending order of start.
ApiBatches ==
    {b \in SeqsUpTo(RawPool, MaxBatch) :
        \A i \in 1..Len(b), j \in 1..Len(b) : i < j => b[i].start < b[j].start}

\* Every list of records the API can answer with: those that carry a start
\* come in ascending order of it.
RawBatches ==
    {b \in SeqsUpTo(RawRecords, MaxBatch) :
        \A i \in 1..Len(b), j \in 1..Len(b) :
            (i < j /\ Processable(b[i]) /\ Processable(b[j])) => b[i].start < b[j].start}

\* A faulty status that takes the two boundary instants for "upcoming" and "ended".
GetContestStatusOpenEnds(start_time_str, duration_seconds, utc) ==
    IF start_time_str.zone # "IST" THEN "unknown"
    ELSE LET start_dt == ParseDisplay(start_time_str) - IstOffsetMinutes
             end_dt == start_dt + (duration_seconds \div 60)
         IN  IF utc <= start_dt THEN "upcoming"
             ELSE IF utc >= end_dt THEN "ended"
             ELSE "running"

\* _get_contest_status: the display text is read as IST wall-clock time and
\* compared with datetime.now(ist_tz); a text strptime rejects gives "unknown".
GetContestStatus(start_time_str, duration_seconds, utc) ==
    IF start_time_str.zone # "IST" THEN "unknown"
    ELSE LET start_dt == ParseDisplay(start_time_str) - IstOffsetMinutes
             end_dt == start_dt + (duration_seconds \div 60)
         IN  IF utc < start_dt THEN "upcoming"
             ELSE IF utc > end_dt THEN "ended"
             ELSE "running"

\* ------------------------------------------------------------------- store
\* The seconds fetch_and_cache_contests reads out of a duration text when
\* duration_seconds is 0: 'h' and 'm' are removed, the text is split, the
\* first part is taken as hours and the second as minutes when it is all digits.
DurationFromText(d) ==
    LET digits(n) == IF n >= 0 THEN n ELSE 0
    IN  CASE d.form = "Unknown"   -> 0
          [] d.form = "{h}h {m}m" -> digits(d.h) * 3600 + digits(d.m) * 60
          [] d.form = "{h}h"      -> digits(d.h) * 3600
          [] d.form = "{m}m"      -> digits(d.m) * 3600
          [] OTHER                -> 60

\* The row fetch_and_cache_contests writes for one processed contest.
CacheRow(contest, stamp) ==
    LET start_dt == ParseDisplay(contest.start_time)
        duration_seconds == IF contest.duration_seconds = 0
                            THEN DurationFromText(contest.duration)
                            ELSE contest.duration_seconds
        end_dt == start_dt + (duration_seconds \div 60)
    IN  [id |-> <<Lower(contest.platform), contest.name>>,
         name |-> contest.name,
         platform |-> contest.platform,
         start_time |-> IsoFormat(start_dt),
         end_time |-> IsoFormat(end_dt),
         duration |-> duration_seconds,
         url |-> contest.url,
         updated_at |-> stamp]

\* The rows a whole batch leaves in an empty table.
BatchRows(contests, stamp) == {CacheRow(contests[i], stamp) : i \in 1..Len(contests)}

\* An INSERT that keeps the row already stored under the id next to the new one.
UpsertAppending(tbl, row) == tbl \cup {row}

\* INSERT OR REPLACE INTO contest_cache: id is the PRIMARY KEY.
Upsert(tbl, row) == {r \in tbl : r.id # row.id} \cup {row}

\* Two faulty DELETEs: one that removes nothing, one that removes a single row.
KeepCache(tbl) == tbl

ClearOneRow(tbl) ==
    IF tbl = {} THEN {}
    ELSE tbl \ {CHOOSE r \in tbl : \A q \in tbl : TextLeq(r.start_time, q.start_time)}

\* DELETE FROM contest_cache
ClearCache(tbl) == {}


\* The dict get_cached_contests builds from a row.
ResultDict(row) ==
    [id |-> row.id,
     name |-> row.name,
     platform |-> row.platform,
     start_time |-> FormatDisplay(FromIso(row.start_time)),
     end_time |-> row.end_time,
     duration |-> FormatDurationFromSeconds(row.duration),
     duration_seconds |-> row.duration,
     url |-> row.url,
     updated_at |-> row.updated_at,
     platform_key |-> PlatformKeyFromName(row.platform)]

\* A faulty WHERE clause that joins the given filters with OR.
MatchesEither(row, platform, start_date, end_date) ==
    \/ platform = "" /\ start_date = <<>> /\ end_date = <<>>
    \/ platform # "" /\ row.platform = PlatformNameFromKey(platform)
    \/ start_date # <<>> /\ TextLeq(start_date, row.start_time)
    \/ end_date # <<>> /\ TextLeq(row.start_time, end_date)

\* The WHERE clause of get_cached_contests: "" / <<>> stand for an absent
\* (None) platform / date, as Python's truth test treats them.
Matches(row, platform, start_date, end_date) ==
    /\ platform # "" => row.platform = PlatformNameFromKey(platform)
    /\ start_date # <<>> => TextLeq(start_date, row.start_time)
    /\ end_date # <<>> => TextLeq(row.start_time, end_date)

\* ORDER BY start_time: every listing of the rows in ascending order (rows
\* with equal start_time may come in either order).
OrderedByStart(rows) ==
    {s \in [1..Cardinality(rows) -> rows] :
        /\ \A i \in 1..Len(s), j \in 1..Len(s) : i # j => s[i] # s[j]
        /\ \A i \in 1..Len(s), j \in 1..Len(s) :
                i < j => TextLeq(s[i].start_time, s[j].start_time)}

\* LIMIT ?: `if limit:` adds the clause for no limit of None and none of 0,
\* so limit 0 stands for both.
Limited(s, limit) ==
    IF limit # 0 /\ limit < Len(s) THEN SubSeq(s, 1, limit) ELSE s

\* get_cached_contests: the lists the SELECT may return, as dicts.
GetCachedContests(tbl, platform, limit, start_date, end_date) ==
    {[i \in 1..Len(Limited(s, limit)) |-> ResultDict(s[i])] :
        s \in OrderedByStart({r \in tbl : Matches(r, platform, start_date, end_date)})}

\* datetime.now().date().isoformat() on the host's clock.
LocalDate(utc, zone) == <<(utc + zone) \div MinutesPerDay>>
NextDate(d) == <<d[1] + 1>>

\* get_contests_today / get_contests_tomorrow
GetContestsToday(tbl, utc, zone, platform, limit) ==
    GetCachedContests(tbl, platform, limit, LocalDate(utc, zone), NextDate(LocalDate(utc, zone)))

GetContestsTomorrow(tbl, utc, zone, platform, limit) ==
    GetCachedContests(tbl, platform, limit, NextDate(LocalDate(utc, zone)),
                      NextDate(NextDate(LocalDate(utc, zone))))

\* A faulty get_cache_age that answers the epoch for an empty table.
GetCacheAgeEpoch(tbl) ==
    IF tbl = {} THEN 0
    ELSE CHOOSE u \in {r.updated_at : r \in tbl} : \A r \in tbl : r.updated_at <= u

\* get_cache_age: SELECT MAX(updated_at); -1 stands for None (empty table).
\* updated_at is SQLite's CURRENT_TIMESTAMP, which is UTC.
GetCacheAge(tbl) ==
    IF tbl = {} THEN 0 - 1
    ELSE CHOOSE u \in {r.updated_at : r \in tbl} : \A r \in tbl : r.updated_at <= u

\* is_cache_stale: datetime.now() is the host's local time.
IsCacheStale(tbl, utc, zone, max_age_hours) ==
    IF GetCacheAge(tbl) = 0 - 1 THEN TRUE
    ELSE ((utc + zone) - GetCacheAge(tbl)) > max_age_hours * MinutesPerHour

\* ------------------------------------------------------------------- state
VARIABLES
    now,        \* UTC clock, minutes
    tz,         \* the host's offset from UTC, minutes
    table,      \* contest_cache as the one shared connection sees it
    committed,  \* contest_cache as last committed
    pc,         \* position of each coroutine
    run,        \* locals of each fetch_and_cache_contests call: contests, idx, cached_count
    fetched,    \* what the source API answered to each call's fetch: "none", "ok", "failed"
    reply,      \* the last response each command sent to its caller
    held,       \* contests_today's local `contests` while it awaits the API
    lastRead,   \* what the last SELECT of a reader saw, and what the complete sets gave then
    store,      \* locals of a cache_contests call: pc, contests, idx
    hist,       \* the last completed cache_contests call: its argument and what it left
    norm,       \* the raw list the latest refresh cycle's fetch was answered with, and what
                \* _process_contests returned for it, until the cycle commits or the next one starts
    view,       \* the contests listed, each with its status, by the /contests_today embed
                \* built at the present instant
    guilds,     \* guild_settings as the shared connection sees it: a row or NoRow per guild
    bot,        \* "running"; "db_closed" once close() has closed the connection;
                \* "stopped" once the cog is unloaded and its task loops are cancelled
    stored,     \* the contest set the last replacement that ran to its commit wrote
    raised,     \* the exception the latest fetch of the API client raised; NoError once
                \* a fetch has answered or a newer one has started
    pending,    \* daily_announcements: the guilds (with their channels) the scan in
                \* progress has still to go through
    announced,  \* per guild, the dates of the announcements delivered to its channel
    upd,        \* GitUpdater: its running flag, where start_update_checker stands,
                \* and what it has done since stop() was called
    req         \* the days and limit of the /contests request in progress

vars == <<now, tz, table, committed, pc, run, fetched, reply, held, lastRead, store, hist, norm, view,
          guilds, bot, stored, raised, pending, announced, upd, req>>

\* The callers of SimpleDB.fetch_and_cache_contests: the periodic task,
\* /refresh_contests (two invocations), and /contests when the cache is stale.
Manual == {"manual1", "manual2"}
Callers == {"timer", "inline"} \cup Manual
Tasks == Callers \cup {"today"}
Requests == Manual \cup {"inline", "today", "tomorrow"}

NoRun == [contests |-> <<>>, idx |-> 0, count |-> 0]
NoReply == [kind |-> "none", count |-> 0]
NoStore == [pc |-> "idle", contests |-> <<>>, idx |-> 0]
NoNorm == [raws |-> <<>>, contests |-> <<>>]
NoView == <<>>
NoError == [kind |-> "none", status |-> 0]

\* guild_settings: the guilds and channels of the model, the values of
\* announcement_time the commands store, and SQL NULL / Python None.
Guilds == {"g1", "g2"}
Channels == {"c1", "c2"}
Times == {"09:00", "18:30"}
None == "None"
NoDate == <<>>
NoRow == [present |-> FALSE, contest_channel_id |-> None, announcement_time |-> None,
          last_announcement |-> NoDate]

\* No scan of daily_announcements in progress.
NoPending == [g \in {} |-> None]

\* GitUpdater after __init__: running is False, start_update_checker has not
\* been scheduled.
NoUpdater ==
    [pc |-> "off", running |-> FALSE, stopped |-> FALSE, checks |-> 0,
     notices |-> 0, late |-> "none"]

DefaultDays == 3               \* /contests: days defaults to 3

\* limit: Optional[int] = None, as a sequence: <<>> is None, <<n>> is n.
NoLimit == <<>>

\* The parameters of /contests at their defaults (days = 3, limit = None).
NoRequest == [days |-> DefaultDays, limit |-> NoLimit]

Init ==
    /\ now = 0
    /\ tz \in TzOffsets
    /\ table = {}
    /\ committed = {}
    /\ pc = [c \in Tasks |-> "idle"]
    /\ run = [c \in Callers |-> NoRun]
    /\ fetched = [c \in Callers |-> "none"]
    /\ reply = [c \in Requests |-> NoReply]
    /\ held = <<>>
    /\ lastRead = [seen |-> {}, complete |-> {{}}]
    /\ store = NoStore
    /\ hist = [fresh |-> FALSE, contests |-> <<>>, content |-> {}, repeat |-> 0]
    /\ norm = NoNorm
    /\ view = NoView
    /\ guilds = [g \in Guilds |-> NoRow]
    /\ bot = "running"
    /\ stored = {}
    /\ raised = NoError
    /\ pending = NoPending
    /\ announced = [g \in Guilds |-> <<>>]
    /\ upd = NoUpdater
    /\ req = NoRequest

\* A statement is in progress on the connection between a DELETE and its commit.
InTransaction == store.pc # "idle" \/ \E c \in Callers : pc[c] = "insert"

\* ------------------------------------------------- fetch_and_cache_contests
\* Where the caller goes on when fetch_and_cache_contests returns: /contests
\* reads the cache next, the others are done.
AfterReturn(c) == IF c = "inline" THEN "read" ELSE "idle"

\* refresh_contests, once fetch_and_cache_contests has returned cached_count:
\* it edits its response to the success embed.  The periodic task only logs.
ReplyAfterReturn(c, count, old) ==
    IF c \in Manual THEN [kind |-> "success", count |-> count] ELSE old

\* refresh_contest_cache fires, or /refresh_contests is invoked: the call
\* awaits api.fetch_upcoming_contests.
Trigger(c) ==
    /\ pc[c] = "idle"
    /\ bot # "stopped"
    /\ pc' = [pc EXCEPT ![c] = "fetching"]
    /\ fetched' = [fetched EXCEPT ![c] = "none"]
    /\ reply' = IF c \in Manual THEN [reply EXCEPT ![c] = NoReply] ELSE reply
    /\ norm' = NoNorm
    /\ raised' = NoError
    /\ UNCHANGED <<now, tz, table, committed, run, held, lastRead, store, hist, view, guilds, bot, stored, pending, announced, upd, req>>

\* A faulty failure path that empties the cache.
FetchFailClearingCache(c, status) ==
    /\ pc[c] = "fetching"
    /\ status # 200
    /\ fetched' = [fetched EXCEPT ![c] = "failed"]
    /\ pc' = [pc EXCEPT ![c] = AfterReturn(c)]
    /\ reply' = IF c \in Manual THEN [reply EXCEPT ![c] = ReplyAfterReturn(c, 0, @)] ELSE reply
    /\ table' = {}
    /\ committed' = {}
    /\ raised' = ErrorKind(status)
    /\ UNCHANGED <<now, tz, run, held, lastRead, store, hist, norm, view, guilds, bot, stored, pending, announced, upd, req>>

\* A failure path on which the exception leaves the caller: the task loop, or
\* the command, ends in a failed state and takes no further trigger.
FetchFailLeavingLoop(c, status) ==
    /\ pc[c] = "fetching"
    /\ status # 200
    /\ fetched' = [fetched EXCEPT ![c] = "failed"]
    /\ pc' = [pc EXCEPT ![c] = "failed"]
    /\ reply' = IF c \in Manual THEN [reply EXCEPT ![c] = ReplyAfterReturn(c, 0, @)] ELSE reply
    /\ raised' = ErrorKind(status)
    /\ UNCHANGED <<now, tz, table, committed, run, held, lastRead, store, hist, norm, view, guilds, bot, stored, pending, announced, upd, req>>

\* The fetch raises (any non-200 status): the outer except logs and returns 0.
FetchFail(c, status) ==
    /\ pc[c] = "fetching"
    /\ status # 200
    /\ fetched' = [fetched EXCEPT ![c] = "failed"]
    /\ pc' = [pc EXCEPT ![c] = AfterReturn(c)]
    /\ reply' = IF c \in Manual THEN [reply EXCEPT ![c] = ReplyAfterReturn(c, 0, @)] ELSE reply
    /\ raised' = ErrorKind(status)
    /\ UNCHANGED <<now, tz, table, committed, run, held, lastRead, store, hist, norm, view, guilds, bot, stored, pending, announced, upd, req>>

\* The fetch answers 200.  An empty list returns 0 at once; otherwise the
\* DELETE is executed and the insert loop starts.  On a closed connection the
\* DELETE raises and the outer except returns 0.
FetchOk(c, raws) ==
    /\ pc[c] = "fetching"
    /\ fetched' = [fetched EXCEPT ![c] = "ok"]
    /\ LET contests == ProcessContests(raws)
       IN  IF contests = <<>> \/ bot # "running"
           THEN /\ pc' = [pc EXCEPT ![c] = AfterReturn(c)]
                /\ reply' = IF c \in Manual
                            THEN [reply EXCEPT ![c] = ReplyAfterReturn(c, 0, @)] ELSE reply
                /\ UNCHANGED <<table, run>>
           ELSE /\ table' = ClearCache(table)
                /\ run' = [run EXCEPT ![c] = [contests |-> contests, idx |-> 1, count |-> 0]]
                /\ pc' = [pc EXCEPT ![c] = "insert"]
                /\ UNCHANGED reply
    /\ norm' = [raws |-> raws, contests |-> ProcessContests(raws)]
    /\ raised' = NoError
    /\ UNCHANGED <<now, tz, committed, held, lastRead, store, hist, view, guilds, bot, stored, pending, announced, upd, req>>

\* One iteration of the insert loop: INSERT OR REPLACE, cached_count += 1.
Insert(c) ==
    /\ pc[c] = "insert"
    /\ bot = "running"
    /\ run[c].idx <= Len(run[c].contests)
    /\ table' = Upsert(table, CacheRow(run[c].contests[run[c].idx], now))
    /\ run' = [run EXCEPT ![c].idx = @ + 1, ![c].count = @ + 1]
    /\ UNCHANGED <<now, tz, committed, pc, fetched, reply, held, lastRead, store, hist, norm, view, guilds, bot, stored, raised, pending, announced, upd, req>>

\* One iteration of the insert loop in which a statement raises (the NOT NULL
\* constraint, a locked or full database): the inner except logs and continues.
InsertFail(c) ==
    /\ pc[c] = "insert"
    /\ run[c].idx <= Len(run[c].contests)
    /\ run' = [run EXCEPT ![c].idx = @ + 1]
    /\ UNCHANGED <<now, tz, table, committed, pc, fetched, reply, held, lastRead, store, hist, norm, view, guilds, bot, stored, raised, pending, announced, upd, req>>

\* await connection.commit(); return cached_count
Commit(c) ==
    /\ pc[c] = "insert"
    /\ bot = "running"
    /\ run[c].idx > Len(run[c].contests)
    /\ committed' = table
    /\ pc' = [pc EXCEPT ![c] = AfterReturn(c)]
    /\ reply' = IF c \in Manual
                THEN [reply EXCEPT ![c] = ReplyAfterReturn(c, run[c].count, @)] ELSE reply
    /\ run' = [run EXCEPT ![c] = NoRun]
    /\ norm' = NoNorm
    /\ stored' = table
    /\ UNCHANGED <<now, tz, table, fetched, held, lastRead, store, hist, view, guilds, bot, raised, pending, announced, upd, req>>

\* connection.commit() on a closed connection raises: the outer except logs
\* and returns 0.
CommitFail(c) ==
    /\ pc[c] = "insert"
    /\ bot # "running"
    /\ run[c].idx > Len(run[c].contests)
    /\ pc' = [pc EXCEPT ![c] = AfterReturn(c)]
    /\ reply' = IF c \in Manual THEN [reply EXCEPT ![c] = ReplyAfterReturn(c, 0, @)] ELSE reply
    /\ run' = [run EXCEPT ![c] = NoRun]
    /\ norm' = NoNorm
    /\ UNCHANGED <<now, tz, table, committed, fetched, held, lastRead, store, hist, view, guilds, bot, stored, raised, pending, announced, upd, req>>

\* The clock advances.  A transaction on the connection lasts far less than
\* one step of the clock.
Tick ==
    /\ now < MaxClock * TickMinutes
    /\ ~InTransaction
    /\ now' = now + TickMinutes
    /\ hist' = [hist EXCEPT !.fresh = FALSE]
    /\ view' = NoView
    /\ UNCHANGED <<tz, table, committed, pc, run, fetched, reply, held, lastRead, store, norm, guilds, bot, stored, raised, pending, announced, upd, req>>

MainCallers == {"timer"} \cup Manual

Next ==
    \/ \E c \in MainCallers : Trigger(c)
    \/ \E c \in MainCallers, s \in HttpErrors : FetchFail(c, s)
    \/ \E c \in MainCallers, b \in ApiBatches : FetchOk(c, b)
    \/ \E c \in MainCallers : Insert(c)
    \/ \E c \in MainCallers : Commit(c)

Spec == Init /\ [][Next]_vars

\* ------------------------------------------------------------ query facade

\* limit=limit handed to the queries: `if limit:` takes None and 0 alike.
LimitArg(limit) == IF limit = NoLimit THEN 0 ELSE limit[1]

IdsOf(res) == {res[i].id : i \in 1..Len(res)}

\* The complete contest sets at this moment: the committed one, and the one
\* each cycle that is writing will have stored once it commits.
CompleteTables ==
    {committed} \cup {BatchRows(run[c].contests, now) : c \in {d \in Callers : pc[d] = "insert"}}

\* What a SELECT saw, next to what the same SELECT gives on the complete sets.
ReadRecord(res, complete) ==
    [seen |-> IdsOf(res), complete |-> {IdsOf(d) : d \in complete}]

\* /contests -> _get_contests_from_cache_or_api: is_cache_stale() decides
\* whether fetch_and_cache_contests runs before the cache is read.
ContestsStart ==
    /\ pc["inline"] = "idle"
    /\ pc' = [pc EXCEPT !["inline"] =
            IF IsCacheStale(table, now, tz, DefaultMaxAgeHours) THEN "fetching" ELSE "read"]
    /\ fetched' = [fetched EXCEPT !["inline"] = "none"]
    /\ reply' = [reply EXCEPT !["inline"] = NoReply]
    /\ norm' = NoNorm
    /\ raised' = NoError
    /\ req' = NoRequest
    /\ UNCHANGED <<now, tz, table, committed, run, held, lastRead, store, hist, view, guilds, bot, stored, pending, announced, upd>>

\* get_cached_contests(start_date=today, end_date=today+days); the command
\* answers with the list (an empty list is the "no contests" embed).
ContestsRead ==
    /\ pc["inline"] = "read"
    /\ LET from == LocalDate(now, tz)
           to == <<from[1] + req.days>>
           limit == LimitArg(req.limit)
       IN  \E res \in GetCachedContests(table, "", limit, from, to) :
               /\ reply' = [reply EXCEPT !["inline"] = [kind |-> "list", count |-> Len(res)]]
               /\ lastRead' = ReadRecord(res,
                       UNION {GetCachedContests(t, "", limit, from, to) : t \in CompleteTables})
    /\ pc' = [pc EXCEPT !["inline"] = "idle"]
    /\ UNCHANGED <<now, tz, table, committed, run, fetched, held, store, hist, norm, view, guilds, bot, stored, raised, pending, announced, upd, req>>

\* The entries of the /contests_today embed: each listed contest with the
\* status _get_contest_status gives it while the embed is built.
TodayEmbed(contests, utc) ==
    [i \in 1..Len(contests) |->
        [name |-> contests[i].name,
         start_time |-> contests[i].start_time,
         duration_seconds |-> contests[i].duration_seconds,
         status |-> GetContestStatus(contests[i].start_time, contests[i].duration_seconds, utc)]]

\* /contests_today: get_contests_today, then, if the list is empty or the
\* cache is stale, await api.fetch_todays_contests.
TodayRead ==
    /\ pc["today"] = "idle"
    /\ \E res \in GetContestsToday(table, now, tz, "", 0) :
           /\ lastRead' = ReadRecord(res,
                  UNION {GetContestsToday(t, now, tz, "", 0) : t \in CompleteTables})
           /\ IF res = <<>> \/ IsCacheStale(table, now, tz, DefaultMaxAgeHours)
              THEN /\ pc' = [pc EXCEPT !["today"] = "fetching"]
                   /\ held' = res
                   /\ reply' = [reply EXCEPT !["today"] = NoReply]
                   /\ UNCHANGED view
              ELSE /\ reply' = [reply EXCEPT !["today"] = [kind |-> "list", count |-> Len(res)]]
                   /\ view' = TodayEmbed(res, now)
                   /\ UNCHANGED <<pc, held>>
    /\ raised' = NoError
    /\ UNCHANGED <<now, tz, table, committed, run, fetched, store, hist, norm, guilds, bot, stored, pending, announced, upd, req>>

\* The API answers: the fresh list is shown (it is not written to the cache).
TodayFetchOk(raws) ==
    /\ pc["today"] = "fetching"
    /\ reply' = [reply EXCEPT !["today"] = [kind |-> "list", count |-> Len(ProcessContests(raws))]]
    /\ pc' = [pc EXCEPT !["today"] = "idle"]
    /\ held' = <<>>
    /\ view' = TodayEmbed(ProcessContests(raws), now)
    /\ raised' = NoError
    /\ UNCHANGED <<now, tz, table, committed, run, fetched, lastRead, store, hist, norm, guilds, bot, stored, pending, announced, upd, req>>

\* What /contests_today answers when the API call raised: the error message
\* if the cached list was empty, the cached list otherwise.
TodayReplyOnError(contests) ==
    IF contests = <<>> THEN [kind |-> "error", count |-> 0]
    ELSE [kind |-> "list", count |-> Len(contests)]

TodayFetchFail(status) ==
    /\ pc["today"] = "fetching"
    /\ status # 200
    /\ reply' = [reply EXCEPT !["today"] = TodayReplyOnError(held)]
    /\ pc' = [pc EXCEPT !["today"] = "idle"]
    /\ held' = <<>>
    /\ view' = IF held = <<>> THEN view ELSE TodayEmbed(held, now)
    /\ raised' = ErrorKind(status)
    /\ UNCHANGED <<now, tz, table, committed, run, fetched, lastRead, store, hist, norm, guilds, bot, stored, pending, announced, upd, req>>

\* /contests_tomorrow: get_contests_tomorrow, no refresh.
TomorrowRead ==
    /\ \E res \in GetContestsTomorrow(table, now, tz, "", 0) :
           /\ reply' = [reply EXCEPT !["tomorrow"] = [kind |-> "list", count |-> Len(res)]]
           /\ lastRead' = ReadRecord(res,
                  UNION {GetContestsTomorrow(t, now, tz, "", 0) : t \in CompleteTables})
    /\ UNCHANGED <<now, tz, table, committed, pc, run, fetched, held, store, hist, norm, view, guilds, bot, stored, raised, pending, announced, upd, req>>

NextFacade ==
    \/ ContestsStart
    \/ \E s \in HttpErrors : FetchFail("inline", s)
    \/ \E b \in ApiBatches : FetchOk("inline", b)
    \/ Insert("inline")
    \/ Commit("inline")
    \/ ContestsRead
    \/ TodayRead
    \/ \E b \in ApiBatches : TodayFetchOk(b)
    \/ \E s \in HttpErrors : TodayFetchFail(s)
    \/ TomorrowRead
    \/ Tick

SpecFacade == Init /\ [][NextFacade]_vars

\* The periodic refresh next to a reading command.
NextReaders ==
    \/ Trigger("timer")
    \/ \E s \in HttpErrors : FetchFail("timer", s)
    \/ \E b \in ApiBatches : FetchOk("timer", b)
    \/ Insert("timer")
    \/ Commit("timer")
    \/ TomorrowRead

SpecReaders == Init /\ [][NextReaders]_vars

\* ------------------------------------------------------- refresh, scheduled
\* The periodic refresh and one /refresh_contests under the scheduling of the
\* event loop: a call that awaits the API or the database is resumed once the
\* awaited operation has answered (the HTTP session has a total timeout), so
\* the step a cycle is waiting for is taken at some point.
LiveCallers == {"timer", "manual1"}

CycleStep(c) ==
    \/ \E st \in HttpErrors : FetchFail(c, st)
    \/ \E b \in ApiBatches : FetchOk(c, b)
    \/ Insert(c)
    \/ InsertFail(c)
    \/ Commit(c)

NextLive ==
    \/ \E c \in LiveCallers : Trigger(c)
    \/ \E c \in LiveCallers : CycleStep(c)

SpecLive == Init /\ [][NextLive]_vars /\ \A c \in LiveCallers : WF_vars(CycleStep(c))

\* ---------------------------------------------------------- guild_settings
\* The row INSERT OR REPLACE leaves: a column the statement does not name takes
\* its default (announcement_time '09:00', last_announcement NULL).
GuildRow(channel, time, last) ==
    [present |-> TRUE, contest_channel_id |-> channel, announcement_time |-> time,
     last_announcement |-> last]

DefaultTime == "09:00"

\* A setter of the channel that keeps a row that is already there (INSERT OR IGNORE).
SetChannelRowKeeping(old, channel) ==
    IF old.present THEN old ELSE GuildRow(channel, DefaultTime, NoDate)

\* set_contest_channel: INSERT OR REPLACE INTO guild_settings (guild_id, contest_channel_id)
SetChannelRow(old, channel) == GuildRow(channel, DefaultTime, NoDate)

\* A setter of the time that names the channel column without reading it back.
SetTimeRowDroppingChannel(old, time) == GuildRow(None, time, NoDate)

\* set_announcement_time: INSERT OR REPLACE (guild_id, contest_channel_id,
\* announcement_time) with the channel read back by the COALESCE subquery.
SetTimeRow(old, time) ==
    GuildRow(IF old.present THEN old.contest_channel_id ELSE None, time, NoDate)

\* get_contest_channel: result[0] if result else None
GetContestChannel(gs, g) == IF gs[g].present THEN gs[g].contest_channel_id ELSE None

\* get_all_contest_channels: WHERE contest_channel_id IS NOT NULL
GetAllContestChannels(gs) ==
    [g \in {h \in DOMAIN gs : gs[h].present /\ gs[h].contest_channel_id # None} |->
        gs[g].contest_channel_id]

\* get_announcement_time: result[0] if result else "09:00"
GetAnnouncementTime(gs, g) == IF gs[g].present THEN gs[g].announcement_time ELSE DefaultTime

\* The last complete replacement once a commit() has been executed: the table,
\* if a refresh has executed all of its statements and only its commit is left.
StoredAfterCommit ==
    IF \E c \in Callers : pc[c] = "insert" /\ run[c].idx > Len(run[c].contests)
    THEN table ELSE stored

\* A setter of the channel that also empties the contest cache.
SetContestChannelClearingCache(g, channel) ==
    /\ bot = "running"
    /\ guilds' = [guilds EXCEPT ![g] = SetChannelRow(@, channel)]
    /\ table' = {}
    /\ committed' = {}
    /\ UNCHANGED <<now, tz, pc, run, fetched, reply, held, lastRead, store, hist, norm, view, bot, stored, raised, pending, announced, upd, req>>

\* /contest_setup -> set_contest_channel: the statement, then commit() on the
\* connection every method of SimpleDB shares.
SetContestChannel(g, channel) ==
    /\ bot = "running"
    /\ guilds' = [guilds EXCEPT ![g] = SetChannelRow(@, channel)]
    /\ committed' = table
    /\ stored' = StoredAfterCommit
    /\ UNCHANGED <<now, tz, table, pc, run, fetched, reply, held, lastRead, store, hist, norm, view, bot, raised, pending, announced, upd, req>>

\* /contest_time -> set_announcement_time
SetAnnouncementTime(g, time) ==
    /\ bot = "running"
    /\ guilds' = [guilds EXCEPT ![g] = SetTimeRow(@, time)]
    /\ committed' = table
    /\ stored' = StoredAfterCommit
    /\ UNCHANGED <<now, tz, table, pc, run, fetched, reply, held, lastRead, store, hist, norm, view, bot, raised, pending, announced, upd, req>>

\* daily_announcements -> mark_announcement_sent: UPDATE ... WHERE guild_id = ?
\* with today = datetime.now().date(), then commit().
MarkAnnouncementSent(g) ==
    /\ bot = "running"
    /\ guilds' = IF guilds[g].present
                 THEN [guilds EXCEPT ![g].last_announcement = LocalDate(now, tz)]
                 ELSE guilds
    /\ committed' = table
    /\ stored' = StoredAfterCommit
    /\ UNCHANGED <<now, tz, table, pc, run, fetched, reply, held, lastRead, store, hist, norm, view, bot, raised, pending, announced, upd, req>>

\* The guild settings commands of every guild next to the periodic refresh.
NextGuild ==
    \/ Trigger("timer")
    \/ \E st \in HttpErrors : FetchFail("timer", st)
    \/ \E b \in ApiBatches : FetchOk("timer", b)
    \/ Insert("timer")
    \/ Commit("timer")
    \/ \E g \in Guilds, ch \in Channels : SetContestChannel(g, ch)
    \/ \E g \in Guilds, t \in Times : SetAnnouncementTime(g, t)
    \/ \E g \in Guilds : MarkAnnouncementSent(g)

SpecGuild == Init /\ [][NextGuild]_vars

\* The commands that read the cache, /contests with the refresh it runs on a
\* stale cache, and the guild settings commands of one guild.
NextFrame ==
    \/ SetContestChannel("g1", "c1")
    \/ SetAnnouncementTime("g1", "18:30")
    \/ MarkAnnouncementSent("g1")
    \/ ContestsStart
    \/ \E st \in HttpErrors : FetchFail("inline", st)
    \/ \E b \in ApiBatches : FetchOk("inline", b)
    \/ Insert("inline")
    \/ Commit("inline")
    \/ ContestsRead
    \/ TodayRead
    \/ \E b \in ApiBatches : TodayFetchOk(b)
    \/ \E st \in HttpErrors : TodayFetchFail(st)
    \/ TomorrowRead

SpecFrame == Init /\ [][NextFrame]_vars

\* ------------------------------------------------------ daily_announcements
MaxScans == 10                 \* hourly scans the model follows

\* The announcement times given to /contest_time next to the hourly scan.
AnnounceTimes == {"09:00", "10:00"}

\* datetime.strptime(time, '%H:%M'): the hour and the minute of a stored time.
TimeFields(time) ==
    CASE time = "09:00" -> <<9, 0>>
      [] time = "10:00" -> <<10, 0>>
      [] time = "18:30" -> <<18, 30>>

\* datetime.now().strftime('%H:%M') on the host's clock.
StrfHourMinute(utc, zone) ==
    LET minute == (utc + zone) % MinutesPerDay
    IN  <<minute \div MinutesPerHour, minute % MinutesPerHour>>

\* should_send_announcement: last_announcement != today (None without a row)
ShouldSendAnnouncement(gs, g, today) ==
    (IF gs[g].present THEN gs[g].last_announcement ELSE NoDate) # today

\* What becomes of channel.send: the message is delivered, the call raises
\* (_send_daily_announcement logs the exception and returns), or the guild
\* or the channel is not in the bot's cache.
SendOutcomes == {"sent", "failed", "no_channel"}

\* tasks.loop(minutes=60) fires: get_all_contest_channels() gives the guilds
\* this scan goes through.  A scan lasts far less than the hour to the next.
AnnouncementScan ==
    /\ bot = "running"
    /\ pending = NoPending
    /\ now < MaxScans * MinutesPerHour
    /\ now' = now + MinutesPerHour
    /\ pending' = GetAllContestChannels(guilds)
    /\ UNCHANGED <<tz, table, committed, pc, run, fetched, reply, held, lastRead, store, hist, norm, view, guilds, bot, stored, raised, announced, upd, req>>

\* One iteration of the scan: should_send_announcement, get_announcement_time,
\* the comparison of strftime('%H:%M') with the stored time, get_guild /
\* get_channel, _send_daily_announcement, mark_announcement_sent (UPDATE and
\* commit on the shared connection).
AnnounceGuild(g, outcome) ==
    /\ g \in DOMAIN pending
    /\ outcome \in SendOutcomes
    /\ pending' = [h \in DOMAIN pending \ {g} |-> pending[h]]
    /\ LET today == LocalDate(now, tz)
           due == /\ ShouldSendAnnouncement(guilds, g, today)
                  /\ StrfHourMinute(now, tz) = TimeFields(GetAnnouncementTime(guilds, g))
       IN  IF due /\ outcome # "no_channel"
           THEN /\ announced' = IF outcome = "sent"
                                 THEN [announced EXCEPT ![g] = Append(@, today)] ELSE announced
                /\ guilds' = IF guilds[g].present
                             THEN [guilds EXCEPT ![g].last_announcement = today] ELSE guilds
                /\ committed' = table
                /\ stored' = StoredAfterCommit
           ELSE UNCHANGED <<announced, guilds, committed, stored>>
    /\ UNCHANGED <<now, tz, table, pc, run, fetched, reply, held, lastRead, store, hist, norm, view, bot, raised, upd, req>>

\* The hourly scan next to /contest_setup and /contest_time.
NextAnnounce ==
    \/ AnnouncementScan
    \/ \E g \in Guilds, o \in SendOutcomes : AnnounceGuild(g, o)
    \/ \E g \in Guilds : SetContestChannel(g, "c1")
    \/ \E g \in Guilds, t \in AnnounceTimes : SetAnnouncementTime(g, t)

SpecAnnounce == Init /\ [][NextAnnounce]_vars

\* ------------------------------------------------- listing command inputs
MaxDays == 30                  \* /contests: days > 30 is refused
ContestsMaxLimit == 20         \* /contests: limit > 20 is refused
DayMaxLimit == 10              \* /contests_today, /contests_tomorrow: limit > 10

\* The days and limits a user sends.
DaysTried == {0, 1, MaxDays + 1}
LimitsTried(max) == {NoLimit, <<-1>>, <<0>>, <<1>>, <<max + 1>>}

\* `if limit and (limit < 1 or limit > max)`: None and 0 are falsy, so
\* neither reaches the range test.
LimitRefused(limit, max) ==
    /\ limit # NoLimit
    /\ limit[1] # 0
    /\ (limit[1] < 1 \/ limit[1] > max)

\* interaction.response.send_message("... must be between ...") and return.
Refusal == [kind |-> "rejected", count |-> 0]

\* /contests with its parameters: the two range tests, then the path of
\* ContestsStart with the request's days and limit.
ContestsCommand(days, limit) ==
    /\ pc["inline"] = "idle"
    /\ IF days < 1 \/ days > MaxDays \/ LimitRefused(limit, ContestsMaxLimit)
       THEN /\ reply' = [reply EXCEPT !["inline"] = Refusal]
            /\ UNCHANGED <<pc, fetched, norm, raised, req>>
       ELSE /\ pc' = [pc EXCEPT !["inline"] =
                    IF IsCacheStale(table, now, tz, DefaultMaxAgeHours) THEN "fetching" ELSE "read"]
            /\ fetched' = [fetched EXCEPT !["inline"] = "none"]
            /\ reply' = [reply EXCEPT !["inline"] = NoReply]
            /\ norm' = NoNorm
            /\ raised' = NoError
            /\ req' = [days |-> days, limit |-> limit]
    /\ UNCHANGED <<now, tz, table, committed, run, held, lastRead, store, hist, view, guilds, bot, stored, pending, announced, upd>>

\* /contests_today with its limit: the range test, then the path of TodayRead
\* with limit=limit.
TodayCommand(limit) ==
    /\ pc["today"] = "idle"
    /\ IF LimitRefused(limit, DayMaxLimit)
       THEN /\ reply' = [reply EXCEPT !["today"] = Refusal]
            /\ UNCHANGED <<pc, held, view, lastRead, raised>>
       ELSE /\ \E res \in GetContestsToday(table, now, tz, "", LimitArg(limit)) :
                   /\ lastRead' = ReadRecord(res,
                          UNION {GetContestsToday(t, now, tz, "", LimitArg(limit)) : t \in CompleteTables})
                   /\ IF res = <<>> \/ IsCacheStale(table, now, tz, DefaultMaxAgeHours)
                      THEN /\ pc' = [pc EXCEPT !["today"] = "fetching"]
                           /\ held' = res
                           /\ reply' = [reply EXCEPT !["today"] = NoReply]
                           /\ UNCHANGED view
                      ELSE /\ reply' = [reply EXCEPT !["today"] = [kind |-> "list", count |-> Len(res)]]
                           /\ view' = TodayEmbed(res, now)
                           /\ UNCHANGED <<pc, held>>
            /\ raised' = NoError
    /\ UNCHANGED <<now, tz, table, committed, run, fetched, store, hist, norm, guilds, bot, stored, pending, announced, upd, req>>

\* /contests_tomorrow with its limit.
TomorrowCommand(limit) ==
    /\ IF LimitRefused(limit, DayMaxLimit)
       THEN /\ reply' = [reply EXCEPT !["tomorrow"] = Refusal]
            /\ UNCHANGED lastRead
       ELSE \E res \in GetContestsTomorrow(table, now, tz, "", LimitArg(limit)) :
                /\ reply' = [reply EXCEPT !["tomorrow"] = [kind |-> "list", count |-> Len(res)]]
                /\ lastRead' = ReadRecord(res,
                       UNION {GetContestsTomorrow(t, now, tz, "", LimitArg(limit)) : t \in CompleteTables})
    /\ UNCHANGED <<now, tz, table, committed, pc, run, fetched, held, store, hist, norm, view, guilds, bot, stored, raised, pending, announced, upd, req>>

NextValidate ==
    \/ \E d \in DaysTried, l \in LimitsTried(ContestsMaxLimit) : ContestsCommand(d, l)
    \/ \E s \in HttpErrors : FetchFail("inline", s)
    \/ \E b \in ApiBatches : FetchOk("inline", b)
    \/ Insert("inline")
    \/ Commit("inline")
    \/ ContestsRead
    \/ \E l \in LimitsTried(DayMaxLimit) : TodayCommand(l)
    \/ \E b \in ApiBatches : TodayFetchOk(b)
    \/ \E s \in HttpErrors : TodayFetchFail(s)
    \/ \E l \in LimitsTried(DayMaxLimit) : TomorrowCommand(l)

SpecValidate == Init /\ [][NextValidate]_vars

\* ---------------------------------------------------------------- shutdown
\* SSTLoungeBot.close: self.updater.stop() sets running to False, then
\* await self.db.close().  SQLite rolls back the statements that are pending
\* on the connection.
CloseDb ==
    /\ bot = "running"
    /\ bot' = "db_closed"
    /\ table' = committed
    /\ upd' = [upd EXCEPT !.running = FALSE, !.stopped = TRUE]
    /\ UNCHANGED <<now, tz, committed, pc, run, fetched, reply, held, lastRead, store, hist, norm, view, guilds, stored, raised, pending, announced, req>>

\* SSTLoungeBot.close: await super().close() removes the cogs; cog_unload
\* cancels refresh_contest_cache.  CancelledError ends the cycle in flight at
\* its await (it is not an Exception, no handler catches it).
CogUnload ==
    /\ bot = "db_closed"
    /\ bot' = "stopped"
    /\ pc' = [pc EXCEPT !["timer"] = "idle"]
    /\ run' = [run EXCEPT !["timer"] = NoRun]
    /\ norm' = NoNorm
    /\ UNCHANGED <<now, tz, table, committed, fetched, reply, held, lastRead, store, hist, view, guilds, stored, raised, pending, announced, upd, req>>

\* The periodic refresh until the bot is shut down, next to /contest_setup.
NextStop ==
    \/ Trigger("timer")
    \/ \E st \in HttpErrors : FetchFail("timer", st)
    \/ \E b \in ApiBatches : FetchOk("timer", b)
    \/ Insert("timer")
    \/ InsertFail("timer")
    \/ Commit("timer")
    \/ CommitFail("timer")
    \/ \E g \in Guilds, ch \in Channels : SetContestChannel(g, ch)
    \/ CloseDb
    \/ CogUnload

SpecStop == Init /\ [][NextStop]_vars

\* ------------------------------------------------------------ update checker
MaxChecks == 6

UpdaterPcs == {"off", "check", "notify", "sleep", "done", "cancelled"}
CheckOutcomes == {"none", "available", "error"}

\* `while self.running:` as it is tested after a check or a notification.
LoopTest(u) == IF u.running THEN "sleep" ELSE "done"

\* setup_hook: create_task(start_update_checker()).  self.running = True and
\* the initial check_for_updates begins.
UpdaterStart ==
    /\ bot = "running"
    /\ upd.pc = "off"
    /\ upd' = [upd EXCEPT !.pc = "check", !.running = TRUE, !.checks = 1]
    /\ UNCHANGED <<now, tz, table, committed, pc, run, fetched, reply, held, lastRead, store, hist, norm, view, guilds, bot, stored, raised, pending, announced, req>>

\* check_for_updates returns (or raises, which is logged): an available update
\* leads to notify_update_available, anything else to the loop test.
UpdaterCheckDone(outcome) ==
    /\ upd.pc = "check"
    /\ upd' = [upd EXCEPT !.pc = IF outcome = "available" THEN "notify" ELSE LoopTest(upd)]
    /\ UNCHANGED <<now, tz, table, committed, pc, run, fetched, reply, held, lastRead, store, hist, norm, view, guilds, bot, stored, raised, pending, announced, req>>

\* notify_update_available: self.bot.db.get_bot_admins() is called without the
\* guild_id the method requires; the TypeError is caught and logged, and no
\* message is sent.  Then the loop test.
UpdaterNotify ==
    /\ upd.pc = "notify"
    /\ upd' = [upd EXCEPT !.pc = LoopTest(upd), !.notices = @ + 1,
                          !.late = IF upd.stopped /\ @ = "none" THEN "notify_call" ELSE @]
    /\ UNCHANGED <<now, tz, table, committed, pc, run, fetched, reply, held, lastRead, store, hist, norm, view, guilds, bot, stored, raised, pending, announced, req>>

\* asyncio.sleep(check_interval) returns; the next check_for_updates begins
\* without `running` being read again.
UpdaterWake ==
    /\ upd.pc = "sleep"
    /\ upd.checks < MaxChecks
    /\ upd' = [upd EXCEPT !.pc = "check", !.checks = @ + 1,
                          !.late = IF upd.stopped THEN "check" ELSE @]
    /\ UNCHANGED <<now, tz, table, committed, pc, run, fetched, reply, held, lastRead, store, hist, norm, view, guilds, bot, stored, raised, pending, announced, req>>

\* run_bot returns after close(); asyncio.run cancels the checker task where
\* it is suspended.
RunBotEnds ==
    /\ bot = "stopped"
    /\ upd.pc \in {"check", "notify", "sleep"}
    /\ upd' = [upd EXCEPT !.pc = "cancelled"]
    /\ UNCHANGED <<now, tz, table, committed, pc, run, fetched, reply, held, lastRead, store, hist, norm, view, guilds, bot, stored, raised, pending, announced, req>>

NextUpdater ==
    \/ UpdaterStart
    \/ \E o \in CheckOutcomes : UpdaterCheckDone(o)
    \/ UpdaterNotify
    \/ UpdaterWake
    \/ CloseDb
    \/ CogUnload
    \/ RunBotEnds

SpecUpdater == Init /\ [][NextUpdater]_vars

\* ------------------------------------------------------- cache_contests
\* Contests handed to cache_contests by a direct user of SimpleDB.  StoreGamma
\* has the id of StoreAlpha and the start_time of StoreBeta.
StoreAlpha ==
    [id |-> <<"codeforces", "Alpha">>, name |-> "Alpha", platform |-> "Codeforces",
     start_time |-> <<1, 0>>, end_time |-> <<1, 120>>, duration |-> 7200, url |-> "u1"]
StoreBeta ==
    [id |-> <<"codechef", "Beta">>, name |-> "Beta", platform |-> "CodeChef",
     start_time |-> <<0, 600>>, end_time |-> <<0, 600>>, duration |-> 0, url |-> ""]
StoreGamma ==
    [id |-> <<"codeforces", "Alpha">>, name |-> "Gamma", platform |-> "AtCoder",
     start_time |-> <<0, 600>>, end_time |-> <<0, 630>>, duration |-> 1800, url |-> "u3"]
StorePool == {StoreAlpha, StoreBeta, StoreGamma}
StoreInputs == SeqsUpTo(StorePool, MaxStoreLen)

\* The row cache_contests writes for one contest.
StoreRow(contest, stamp) ==
    [id |-> contest.id,
     name |-> contest.name,
     platform |-> contest.platform,
     start_time |-> contest.start_time,
     end_time |-> contest.end_time,
     duration |-> contest.duration,
     url |-> contest.url,
     updated_at |-> stamp]

\* A table without its write stamps: what the queries return of the contests.
QueryView(tbl) == {[r EXCEPT !.updated_at = 0] : r \in tbl}

\* cache_contests(contests) is called: the DELETE is executed.
CacheBegin(contests) ==
    /\ store.pc = "idle"
    /\ table' = ClearCache(table)
    /\ store' = [pc |-> "insert", contests |-> contests, idx |-> 1]
    /\ hist' = [hist EXCEPT !.fresh = FALSE]
    /\ UNCHANGED <<now, tz, committed, pc, run, fetched, reply, held, lastRead, norm, view, guilds, bot, stored, raised, pending, announced, upd, req>>

\* One iteration of its insert loop.
CacheInsert ==
    /\ store.pc = "insert"
    /\ store.idx <= Len(store.contests)
    /\ table' = Upsert(table, StoreRow(store.contests[store.idx], now))
    /\ store' = [store EXCEPT !.idx = @ + 1]
    /\ UNCHANGED <<now, tz, committed, pc, run, fetched, reply, held, lastRead, hist, norm, view, guilds, bot, stored, raised, pending, announced, upd, req>>

\* A statement of the insert loop raises (a contest without a name or a start
\* breaks NOT NULL; a locked or full database): cache_contests has no handler,
\* the exception leaves the call before the commit, and the DELETE and the
\* inserts made so far stay pending on the connection.
CacheInsertFail ==
    /\ store.pc = "insert"
    /\ store.idx <= Len(store.contests)
    /\ store' = NoStore
    /\ UNCHANGED <<now, tz, table, committed, pc, run, fetched, reply, held, lastRead, hist, norm, view, guilds, bot, stored, raised, pending, announced, upd, req>>

\* await connection.commit().  hist keeps the argument, how many times in a
\* row it was given, and what the first of these calls left in the table.
CacheCommit ==
    /\ store.pc = "insert"
    /\ store.idx > Len(store.contests)
    /\ committed' = table
    /\ store' = NoStore
    /\ hist' = IF hist.repeat >= 1 /\ hist.contests = store.contests
               THEN [hist EXCEPT !.fresh = TRUE, !.repeat = 2]
               ELSE [fresh |-> TRUE, contests |-> store.contests,
                     content |-> QueryView(table), repeat |-> 1]
    /\ stored' = table
    /\ UNCHANGED <<now, tz, table, pc, run, fetched, reply, held, lastRead, norm, view, guilds, bot, raised, pending, announced, upd, req>>

NextStore ==
    \/ \E x \in StoreInputs : CacheBegin(x)
    \/ CacheInsert
    \/ CacheInsertFail
    \/ CacheCommit
    \/ Tick

SpecStore == Init /\ [][NextStore]_vars

\* cache_contests calls that run to their commit at one instant: the tables
\* the queries are put to.
NextQuery ==
    \/ \E x \in StoreInputs : CacheBegin(x)
    \/ CacheInsert
    \/ CacheCommit

SpecQuery == Init /\ [][NextQuery]_vars

\* ------------------------------------------------------------------ ingest
\* One /refresh_contests caller, fed every list of records the API can answer
\* with, on a database whose statements may raise.
NextIngest ==
    \/ Trigger("manual1")
    \/ \E s \in HttpErrors : FetchFail("manual1", s)
    \/ \E b \in RawBatches : FetchOk("manual1", b)
    \/ Insert("manual1")
    \/ InsertFail("manual1")
    \/ Commit("manual1")

SpecIngest == Init /\ [][NextIngest]_vars

\* The API client under every status: the periodic refresh and /contests_today
\* at one instant.
NextClient ==
    \/ Trigger("timer")
    \/ \E st \in HttpStatuses : FetchFail("timer", st)
    \/ \E b \in ApiBatches : FetchOk("timer", b)
    \/ Insert("timer")
    \/ Commit("timer")
    \/ TodayRead
    \/ \E b \in ApiBatches : TodayFetchOk(b)
    \/ \E st \in HttpStatuses : TodayFetchFail(st)

SpecClient == Init /\ [][NextClient]_vars

\* One /refresh_contests fed single records of every platform key and
\* duration: what the normalizer makes of a record, and what the read path
\* makes of the row stored for it.
FieldKeys == KnownKeys \cup {"hackerrank.com", "TopCoder.com"}
FieldDurations == {0, 30, 2700, 5400, 7200, 9000}
FieldRecords ==
    {[event |-> "Zeta", resource |-> k, start |-> 600, duration |-> d, href |-> "u7"] :
        k \in FieldKeys, d \in FieldDurations}
    \cup {[event |-> "Zeta", resource |-> k, start |-> 600, href |-> "u7"] : k \in FieldKeys}
FieldBatches == {<<r>> : r \in FieldRecords}

NextFields ==
    \/ Trigger("manual1")
    \/ \E st \in HttpErrors : FetchFail("manual1", st)
    \/ \E b \in FieldBatches : FetchOk("manual1", b)
    \/ Insert("manual1")
    \/ Commit("manual1")

SpecFields == Init /\ [][NextFields]_vars

\* /contests_today next to the periodic refresh while the clock advances; its
\* own fetch is fed every list of records the API can answer with.
NextToday ==
    \/ Trigger("timer")
    \/ \E s \in HttpErrors : FetchFail("timer", s)
    \/ \E b \in ApiBatches : FetchOk("timer", b)
    \/ Insert("timer")
    \/ Commit("timer")
    \/ TodayRead
    \/ \E b \in RawBatches : TodayFetchOk(b)
    \/ \E s \in HttpErrors : TodayFetchFail(s)
    \/ Tick

SpecToday == Init /\ [][NextToday]_vars

\* ------------------------------------------------------------------ claims
NoFilterResults(tbl) == GetCachedContests(tbl, "", 0, <<>>, <<>>)

\* C1: a refresh cycle whose fetch fails leaves the contest store as it was:
\* neither its start nor the failing fetch changes what query({}) returns.
C1_FailedFetchKeepsStore ==
    [][\A c \in Callers :
          ((pc[c] = "idle" /\ pc'[c] = "fetching") \/ (pc[c] = "fetching" /\ fetched'[c] = "failed"))
              => (NoFilterResults(table') = NoFilterResults(table) /\ committed' = committed)]_vars

\* A cycle has failed while the store held contests.
C1_Witness ==
    \E c \in Callers : fetched[c] = "failed" /\ pc[c] = "idle" /\ table # {} /\ committed = table

\* C2: at most one refresh cycle is in flight at any time.
InFlight == {c \in Callers : pc[c] \in {"fetching", "insert"}}
C2_AtMostOneInFlight == Cardinality(InFlight) <= 1

\* C4: when a cycle that ran alone completes after a successful fetch, the
\* store holds exactly the contests of the fetched batch (none for an empty
\* batch), and so none that was stored before.
C4_CompletedRefreshHoldsBatch ==
    [][\A c \in Callers :
          /\ (InFlight = {c} /\ pc[c] = "insert" /\ pc'[c] # "insert")
                 => QueryView(table') = QueryView(BatchRows(run[c].contests, now))
          /\ (InFlight = {c} /\ pc[c] = "fetching" /\ fetched'[c] = "ok" /\ pc'[c] # "insert")
                 => table' = {}]_vars

\* C9: /refresh_contests answers a cycle whose fetch failed with a failure.
C9_FailedRefreshReportedAsFailure ==
    \A c \in Manual : (fetched[c] = "failed" /\ reply[c].kind # "none") => reply[c].kind = "error"

\* C3: a query sees one of the complete contest sets (the one stored before a
\* refresh or the one stored by it), never the cleared or half-filled table.
C3_ReadersSeeCompleteSet == lastRead.seen \in lastRead.complete

\* C8: no read request (/contests, /contests_today, /contests_tomorrow) is
\* answered with an error.
C8_ReadNeverEndsInError ==
    \A r \in {"inline", "today", "tomorrow"} : reply[r].kind # "error"

AgesChecked == (1..MaxAgeHours) \cup {DefaultMaxAgeHours}

\* C7: is_cache_stale(max_age) is true exactly when the store is empty or the
\* time from the newest updated_at to now, both on one clock, exceeds max_age.
C7_StaleIffEmptyOrOlderThanMaxAge ==
    \A m \in AgesChecked :
        IsCacheStale(table, now, tz, m)
            <=> (table = {} \/ \A r \in table : now - r.updated_at > m * MinutesPerHour)

\* C6: is_cache_stale is true on an empty store, and false right after a
\* cache_contests call that stored at least one contest, for every max_age > 0.
C6_FreshAfterReplaceAll ==
    \A m \in AgesChecked :
        /\ table = {} => IsCacheStale(table, now, tz, m)
        /\ (hist.fresh /\ table # {}) => ~IsCacheStale(table, now, tz, m)

DistinctIds(contests) ==
    \A i \in 1..Len(contests), j \in 1..Len(contests) : i # j => contests[i].id # contests[j].id

SameContest(res, contest) ==
    /\ res.id = contest.id
    /\ res.name = contest.name
    /\ res.platform = contest.platform
    /\ ParseDisplay(res.start_time) = FromIso(contest.start_time)
    /\ res.end_time = contest.end_time
    /\ res.duration_seconds = contest.duration
    /\ res.url = contest.url

\* C5: right after cache_contests(X), X with pairwise distinct ids, the query
\* without filters returns exactly the contests of X, each once, in ascending
\* order of start_time.
C5_ReplaceAllThenQuery ==
    (hist.fresh /\ DistinctIds(hist.contests)) =>
        \A res \in NoFilterResults(table) :
            /\ Len(res) = Len(hist.contests)
            /\ \A i \in 1..Len(hist.contests) :
                   Cardinality({k \in 1..Len(res) : SameContest(res[k], hist.contests[i])}) = 1
            /\ \A k \in 1..(Len(res) - 1) :
                   ParseDisplay(res[k].start_time) <= ParseDisplay(res[k + 1].start_time)

\* cache_contests has just stored two contests given in descending order of start.
C5_Witness ==
    hist.fresh /\ hist.contests = <<StoreAlpha, StoreBeta>> /\ committed = table

QueryPlatforms == {""} \cup KnownKeys
QueryLimits == 0..MaxStoreLen
QueryDates == {<<>>, <<0>>, <<1>>, <<2>>}

\* C10: after cache_contests(X) is called twice in a row, every query returns
\* what it returned after the first of the two calls.
C10_ReplaceAllIdempotent ==
    (hist.fresh /\ hist.repeat = 2) =>
        \A p \in QueryPlatforms, l \in QueryLimits, from \in QueryDates, to \in QueryDates :
            GetCachedContests(QueryView(table), p, l, from, to)
                = GetCachedContests(hist.content, p, l, from, to)

\* The second of two calls in a row with the same two contests has returned.
C10_Witness ==
    hist.fresh /\ hist.repeat = 2 /\ hist.contests = <<StoreBeta, StoreAlpha>>

\* The platform a filter value denotes: a key denotes its display name, any
\* other value denotes itself.
PlatformTable ==
    {<<"codeforces.com", "Codeforces">>, <<"codechef.com", "CodeChef">>,
     <<"atcoder.jp", "AtCoder">>, <<"leetcode.com", "LeetCode">>}
FilterDenotes(f, name) ==
    IF \E e \in PlatformTable : e[1] = f THEN <<f, name>> \in PlatformTable ELSE f = name
PlatformFilters == KnownKeys \cup {"Codeforces", "CodeChef", "hackerrank.com"}

\* C11: a query with a platform filter returns all and only the stored
\* contests, among those the date filters admit, whose platform is the display
\* name the filter denotes; with a limit of one too it returns none of another
\* platform.
C11_PlatformFilterExact ==
    \A f \in PlatformFilters, from \in QueryDates, to \in QueryDates :
        /\ \A res \in GetCachedContests(table, f, 0, from, to) :
               IdsOf(res) = {r.id : r \in {q \in table : /\ FilterDenotes(f, q.platform)
                                                          /\ Matches(q, "", from, to)}}
        /\ \A res \in GetCachedContests(table, f, 1, from, to) :
               \A i \in 1..Len(res) : FilterDenotes(f, res[i].platform)

\* The committed store holds a Codeforces contest next to one of another platform.
C11_Witness ==
    /\ committed = table
    /\ \E r \in table, q \in table : r.platform = "Codeforces" /\ q.platform = "CodeChef"

FilterDates == QueryDates \cup {<<0, 600>>, <<1, 0>>}

\* A stored contest satisfies a filter: the platform filter by the name it
\* denotes; start_date by starting at it or later; end_date by starting at it
\* or earlier, where a bare end date stands before every time of its own day.
Satisfies(row, platform, start_date, end_date) ==
    /\ platform = "" \/ FilterDenotes(platform, row.platform)
    /\ \/ start_date = <<>>
       \/ Len(start_date) = 1 /\ row.start_time[1] >= start_date[1]
       \/ Len(start_date) = 2 /\ FromIso(row.start_time) >= FromIso(start_date)
    /\ \/ end_date = <<>>
       \/ Len(end_date) = 1 /\ row.start_time[1] < end_date[1]
       \/ Len(end_date) = 2 /\ FromIso(row.start_time) <= FromIso(end_date)

\* C13: for every combination of present and absent filters (platform,
\* start_date, end_date) the query returns exactly the stored contests that
\* satisfy all the given filters, each once, in ascending order of start_time.
C13_FiltersAreAnded ==
    \A p \in {"", "codeforces.com", "CodeChef"}, from \in FilterDates, to \in FilterDates :
        \A res \in GetCachedContests(table, p, 0, from, to) :
            /\ IdsOf(res) = {r.id : r \in {q \in table : Satisfies(q, p, from, to)}}
            /\ Len(res) = Cardinality(IdsOf(res))
            /\ \A k \in 1..(Len(res) - 1) :
                   ParseDisplay(res[k].start_time) <= ParseDisplay(res[k + 1].start_time)

\* The committed store holds two contests of different platforms and days.
C13_Witness ==
    /\ committed = table
    /\ \E r \in table, q \in table :
           r.platform # q.platform /\ r.start_time[1] # q.start_time[1]

\* C14: on the empty store every query, with any filters, returns the empty
\* list, get_cache_age returns None, and is_cache_stale returns True.
C14_EmptyStoreIsSafe ==
    table = {} =>
        /\ \A p \in QueryPlatforms, l \in QueryLimits, from \in QueryDates, to \in QueryDates :
               GetCachedContests(table, p, l, from, to) = {<<>>}
        /\ \A p \in QueryPlatforms, l \in QueryLimits :
               /\ GetContestsToday(table, now, tz, p, l) = {<<>>}
               /\ GetContestsTomorrow(table, now, tz, p, l) = {<<>>}
        /\ GetCacheAge(table) = 0 - 1
        /\ \A m \in AgesChecked : IsCacheStale(table, now, tz, m)

\* Before any refresh, /contests_tomorrow has answered with the empty list and
\* /contests has found the cache stale.
C14_Witness ==
    /\ table = {} /\ committed = {}
    /\ reply["tomorrow"] = [kind |-> "list", count |-> 0]
    /\ pc["inline"] = "fetching"

\* C15: with D the current date, get_contests_today returns exactly the stored
\* contests that start on D and get_contests_tomorrow exactly those that start
\* on D+1; none is in both, and one that starts at the midnight beginning D+1
\* is in tomorrow's list only.
C15_TodayTomorrowRanges ==
    LET D == LocalDate(now, tz)[1]
    IN  \A today \in GetContestsToday(table, now, tz, "", 0),
           tomorrow \in GetContestsTomorrow(table, now, tz, "", 0) :
            /\ IdsOf(today) = {r.id : r \in {q \in table : q.start_time[1] = D}}
            /\ IdsOf(tomorrow) = {r.id : r \in {q \in table : q.start_time[1] = D + 1}}
            /\ IdsOf(today) \cap IdsOf(tomorrow) = {}
            /\ \A r \in table : r.start_time = <<D + 1, 0>> =>
                   r.id \in IdsOf(tomorrow) /\ r.id \notin IdsOf(today)

\* The store holds a contest that starts today and one that starts at the
\* midnight that ends today.
C15_Witness ==
    /\ committed = table
    /\ \E r \in table, q \in table :
           r.start_time[1] = LocalDate(now, tz)[1] /\ q.start_time = <<LocalDate(now, tz)[1] + 1, 0>>

\* C16: every status the /contests_today embed shows is upcoming, running or
\* ended: upcoming exactly when now < start_time, ended exactly when
\* now > start_time + duration, running otherwise (also at now = start_time and
\* at now = end_time); no stored row carries a status.
C16_StatusFromClock ==
    /\ \A i \in 1..Len(view) :
           LET start == ParseDisplay(view[i].start_time) - IstOffsetMinutes
               end == start + (view[i].duration_seconds \div 60)
           IN  /\ view[i].status \in {"upcoming", "running", "ended"}
               /\ view[i].status = "upcoming" <=> now < start
               /\ view[i].status = "ended" <=> now > end
               /\ view[i].status = "running" <=> (start <= now /\ now <= end)
    /\ \A r \in table \cup committed : "status" \notin DOMAIN r

\* The embed shows a contest at the instant it starts, and another that has
\* not started, over a cache that holds contests.
C16_Witness ==
    /\ table # {}
    /\ \E i \in 1..Len(view), j \in 1..Len(view) :
           /\ now = ParseDisplay(view[i].start_time) - IstOffsetMinutes
           /\ view[i].status = "running"
           /\ view[j].status = "upcoming"

\* The embed shows a contest at the instant it ends.
C16_WitnessEnd ==
    \E i \in 1..Len(view) :
        /\ view[i].duration_seconds > 0
        /\ now = ParseDisplay(view[i].start_time) - IstOffsetMinutes + (view[i].duration_seconds \div 60)
        /\ view[i].status = "running"

\* C17: the normalizer returns at most as many contests as it was given
\* records; every contest it returns, and every row stored from one, ends at
\* its start plus its duration and so not before its start; a record without a
\* duration gives a contest of duration 0 that ends when it starts.
C17_EndIsStartPlusDuration ==
    /\ Len(norm.contests) <= Len(norm.raws)
    /\ \A i \in 1..Len(norm.contests) :
           LET c == norm.contests[i]
           IN  /\ ParseDisplay(c.end_time) = ParseDisplay(c.start_time) + (c.duration_seconds \div 60)
               /\ ParseDisplay(c.end_time) >= ParseDisplay(c.start_time)
    /\ \A j \in 1..Len(norm.raws) :
           (Processable(norm.raws[j]) /\ "duration" \notin DOMAIN norm.raws[j]) =>
               \E i \in 1..Len(norm.contests) :
                   /\ norm.contests[i].name = norm.raws[j].event
                   /\ norm.contests[i].duration_seconds = 0
                   /\ norm.contests[i].end_time = norm.contests[i].start_time
    /\ \A r \in table :
           /\ FromIso(r.end_time) = FromIso(r.start_time) + (r.duration \div 60)
           /\ FromIso(r.end_time) >= FromIso(r.start_time)

\* A list with a record the normalizer skips and one without a duration has
\* been normalized, and the contest of the latter is stored.
C17_Witness ==
    /\ norm.raws = <<RawNoStart, RawDelta>>
    /\ Len(norm.contests) = 1
    /\ \E r \in table : r.name = "Delta" /\ r.duration = 0

\* C18: for every list of records, the normalizer returns the contests of
\* exactly the records it can read, in their order in the list, whatever
\* records stand between them, and the fetch that called it does not fail.
C18_MalformedRecordSkipped ==
    LET raws == norm.raws
        out == norm.contests
        good == {j \in 1..Len(raws) : {"start", "event", "resource"} \subseteq DOMAIN raws[j]}
        nth(i) == CHOOSE j \in good : Cardinality({k \in good : k <= j}) = i
    IN  /\ Len(out) = Cardinality(good)
        /\ \A i \in 1..Len(out) :
               /\ out[i].name = raws[nth(i)].event
               /\ out[i].platform_key = raws[nth(i)].resource
               /\ ParseDisplay(out[i].start_time) = raws[nth(i)].start + IstOffsetMinutes
        /\ norm # NoNorm => fetched["manual1"] = "ok"

\* A list whose first record cannot be read and whose second can has been
\* normalized to the contest of the second.
C18_Witness ==
    /\ Len(norm.raws) = 2
    /\ "start" \notin DOMAIN norm.raws[1]
    /\ Len(norm.contests) = 1
    /\ norm.contests[1].name = norm.raws[2].event

\* C19: the count a refresh that ran alone returns when it has replaced the
\* store is the number of contests the store holds at that moment, and it is
\* at most the length of the batch.
C19_CountIsStoreSize ==
    [][\A c \in Manual :
          (InFlight = {c} /\ pc[c] = "insert" /\ pc'[c] # "insert") =>
              /\ reply'[c].count = Cardinality(table')
              /\ reply'[c].count <= Len(run[c].contests)]_vars

\* C20: cache_contests ends only by committing, after it has gone through
\* every contest of its batch: a statement that fails on one contest does not
\* end the call.
C20_WriteFailureSkipped ==
    [][(store.pc = "insert" /\ store'.pc = "idle") =>
          (store.idx > Len(store.contests) /\ committed' = table')]_vars

\* ---------------------------------------------------------------- C21..C30
ErrorKinds == {"API_UNAUTHORIZED", "API_RATE_LIMITED", "API_ERROR"}

\* The kind of failure the specification gives each status.
KindOfStatus(status) ==
    IF status = 401 THEN "API_UNAUTHORIZED"
    ELSE IF status = 429 THEN "API_RATE_LIMITED" ELSE "API_ERROR"

\* C21: every answer other than 200 makes the fetch raise exactly one of three
\* kinds of failure -- unauthorized for 401, rate limited for 429, the generic
\* kind carrying the status for every other one -- and the failure reaches the
\* caller of the fetch: the refresh records a failed fetch, /contests_today
\* leaves its fetch with the exception in hand.
C21_FailureIsClassified ==
    /\ [](raised # NoError =>
            /\ raised.kind \in ErrorKinds
            /\ raised.status \in HttpStatuses
            /\ raised.kind = KindOfStatus(raised.status))
    /\ [][\A st \in HttpStatuses :
            /\ FetchFail("timer", st) =>
                  raised' = [kind |-> KindOfStatus(st), status |-> st] /\ fetched'["timer"] = "failed"
            /\ TodayFetchFail(st) =>
                  /\ raised' = [kind |-> KindOfStatus(st), status |-> st]
                  /\ reply'["today"] = TodayReplyOnError(held)]_vars

\* /contests_today answered with the error message after a 503, which the
\* fetch raised as the generic kind carrying 503.
C21_Witness ==
    /\ raised = [kind |-> "API_ERROR", status |-> 503]
    /\ reply["today"].kind = "error"
    /\ pc["today"] = "idle"

\* C22: the store never holds two contests with one id, and writing a contest
\* whose id is stored puts the new row in the place of the old one.
C22_OneRowPerId ==
    /\ [](\A r1 \in table, r2 \in table : r1.id = r2.id => r1 = r2)
    /\ [][Insert("manual1") =>
            LET row == CacheRow(run["manual1"].contests[run["manual1"].idx], now)
            IN  /\ row \in table'
                /\ (\E r \in table : r.id = row.id) =>
                       Cardinality(table') = Cardinality(table)]_vars

\* Both occurrences of the event Alpha of codeforces.com were written, the
\* later one last: the store holds the later one alone.
C22_Witness ==
    /\ pc["manual1"] = "insert"
    /\ norm.raws = <<RawAlphaEarly, RawAlpha>>
    /\ run["manual1"].count = 2
    /\ Cardinality(table) = 1
    /\ \E r \in table : r.duration = RawAlpha.duration /\ r.url = RawAlpha.href

\* C23: once the periodic refresh has been stopped no cycle of it starts, and
\* the store holds a complete set: the one the last replacement that ran to
\* its commit wrote (the set before the cycle that was in flight, or the set
\* of that cycle if it finished).
C23_StopLeavesCompleteSet ==
    /\ [](bot = "stopped" => pc["timer"] = "idle" /\ table = stored /\ committed = stored)
    /\ [][bot = "stopped" => pc'["timer"] = "idle"]_vars

C25_ReplaceAllCommitsAsUnit == committed = stored

\* C26: a platform key that went through the normalizer (key to name), the
\* store and the read path (name to key) comes back as it was, the name of
\* the key the read path gives is the name stored, and a key that is none of
\* the four platforms is its own name and its own key.
C26_PlatformRoundTrip ==
    \A i \in 1..Len(norm.contests) :
        LET key == SelectSeq(norm.raws, Processable)[i].resource
            row == CacheRow(norm.contests[i], now)
        IN  row \in table =>
                \A res \in GetCachedContests(table, "", 0, <<>>, <<>>) :
                    \A j \in 1..Len(res) :
                        res[j].id = row.id =>
                            /\ res[j].platform_key = key
                            /\ PlatformNameFromKey(res[j].platform_key) = res[j].platform
                            /\ key \notin KnownKeys => res[j].platform = key

\* The steps of the commands that read the cache, and of the guild settings
\* commands.
ReadStep ==
    \/ ContestsStart
    \/ ContestsRead
    \/ TodayRead
    \/ \E b \in ApiBatches : TodayFetchOk(b)
    \/ \E st \in HttpErrors : TodayFetchFail(st)
    \/ TomorrowRead

GuildStep ==
    \/ \E g \in Guilds, ch \in Channels : SetContestChannel(g, ch)
    \/ \E g \in Guilds, t \in Times : SetAnnouncementTime(g, t)
    \/ \E g \in Guilds : MarkAnnouncementSent(g)

\* C27: the reads of the cache and the guild settings operations leave the
\* stored contests as they are; the stored contests change only in a step of
\* a refresh (its DELETE or one of its inserts).
C27_OnlyRefreshWritesContests ==
    [][/\ (ReadStep \/ GuildStep) => table' = table
       /\ table' # table =>
              \E c \in Callers :
                  \/ pc[c] = "fetching" /\ pc'[c] = "insert"
                  \/ pc[c] = "insert" /\ pc'[c] = "insert" /\ run'[c].idx = run[c].idx + 1]_vars

\* Contests are stored, /contests and /contests_tomorrow have answered from
\* the cache, and guild g1 has its channel, its time and an announcement
\* marked as sent.
C27_Witness ==
    /\ table # {}
    /\ reply["inline"].kind = "list"
    /\ reply["tomorrow"].kind = "list"
    /\ guilds["g1"].present
    /\ guilds["g1"].last_announcement # NoDate

\* C28: set_contest_channel(g, c) leaves c as the channel of g, whatever was
\* stored before, in get_contest_channel and in get_all_contest_channels; the
\* channel of a guild changes in no other step, and a guild without a row has
\* no channel.
C28_LastChannelSetWins ==
    /\ [](\A g \in Guilds :
            ~guilds[g].present =>
                GetContestChannel(guilds, g) = None /\ g \notin DOMAIN GetAllContestChannels(guilds))
    /\ [][\A g \in Guilds :
            /\ \A ch \in Channels :
                   SetContestChannel(g, ch) =>
                       /\ GetContestChannel(guilds', g) = ch
                       /\ g \in DOMAIN GetAllContestChannels(guilds')
                       /\ GetAllContestChannels(guilds')[g] = ch
            /\ (\A ch \in Channels : ~SetContestChannel(g, ch)) =>
                   GetContestChannel(guilds', g) = GetContestChannel(guilds, g)]_vars

\* g1 has the channel c2 and an announcement marked as sent; g2, whose time
\* was set but whose channel never was, has no channel.
C28_Witness ==
    /\ GetContestChannel(guilds, "g1") = "c2"
    /\ guilds["g1"].last_announcement # NoDate
    /\ guilds["g2"].present
    /\ GetContestChannel(guilds, "g2") = None

\* C29: set_announcement_time(g, t) leaves t as the time of g and the channel
\* of g as it was; a guild without a row, and a guild whose row was written by
\* set_contest_channel, has the time 09:00.
C29_TimeSetKeepsChannel ==
    /\ [](\A g \in Guilds : ~guilds[g].present => GetAnnouncementTime(guilds, g) = "09:00")
    /\ [][\A g \in Guilds :
            /\ \A t \in Times :
                   SetAnnouncementTime(g, t) =>
                       /\ GetAnnouncementTime(guilds', g) = t
                       /\ GetContestChannel(guilds', g) = GetContestChannel(guilds, g)
            /\ \A ch \in Channels :
                   SetContestChannel(g, ch) /\ ~guilds[g].present =>
                       GetAnnouncementTime(guilds', g) = "09:00"]_vars

\* g1 was given the channel c1 and then the time 18:30: it has both.
C29_Witness ==
    /\ GetContestChannel(guilds, "g1") = "c1"
    /\ GetAnnouncementTime(guilds, "g1") = "18:30"
    /\ GetAnnouncementTime(guilds, "g2") = "09:00"

\* The text the specification gives a duration of s seconds.
Rendered(seconds) ==
    LET hours == seconds \div 3600
        minutes == (seconds % 3600) \div 60
    IN  IF seconds = 0 THEN [form |-> "Unknown", h |-> 0, m |-> 0]
        ELSE IF hours > 0 /\ minutes > 0 THEN [form |-> "{h}h {m}m", h |-> hours, m |-> minutes]
        ELSE IF hours > 0 THEN [form |-> "{h}h", h |-> hours, m |-> 0]
        ELSE IF minutes > 0 THEN [form |-> "{m}m", h |-> 0, m |-> minutes]
        ELSE [form |-> "< 1m", h |-> 0, m |-> 0]

\* C30: a record without a duration or with a duration of zero is rendered
\* "Unknown"; a record of s > 0 seconds is rendered from s div 3600 hours and
\* (s mod 3600) div 60 minutes (7200 as "2h"); the normalizer and the read
\* path of the store render the same text for the same contest.
C30_DurationRendering ==
    \A i \in 1..Len(norm.contests) :
        LET raw == SelectSeq(norm.raws, Processable)[i]
            contest == norm.contests[i]
            row == CacheRow(contest, now)
        IN  /\ contest.duration = Rendered(RawDuration(raw))
            /\ RawDuration(raw) = 0 => contest.duration.form = "Unknown"
            /\ RawDuration(raw) = 7200 => contest.duration = [form |-> "{h}h", h |-> 2, m |-> 0]
            /\ row \in table =>
                   \A res \in GetCachedContests(table, "", 0, <<>>, <<>>) :
                       \A j \in 1..Len(res) :
                           res[j].id = row.id => res[j].duration = contest.duration

\* A record without a duration was stored and reads back as "Unknown".
C30_Witness ==
    /\ Len(norm.raws) = 1
    /\ "duration" \notin DOMAIN norm.raws[1]
    /\ CacheRow(norm.contests[1], now) \in table
    /\ \E res \in GetCachedContests(table, "", 0, <<>>, <<>>) :
           Len(res) = 1 /\ res[1].duration.form = "Unknown"

\* A record of 9000 seconds was stored and reads back as "2h 30m".
C30_WitnessHoursMinutes ==
    /\ Len(norm.raws) = 1
    /\ RawDuration(norm.raws[1]) = 9000
    /\ \E res \in GetCachedContests(table, "", 0, <<>>, <<>>) :
           Len(res) = 1 /\ res[1].duration = [form |-> "{h}h {m}m", h |-> 2, m |-> 30]

\* ---------------------------------------------------------------- C31..C36
\* C31: set_contest_channel on a guild that has a channel leaves the announcement
\* time and the last-announced date of the guild as they were, and
\* set_announcement_time leaves its last-announced date as it was.
C31_SettersKeepOtherFields ==
    [][\A g \in Guilds :
          /\ \A ch \in Channels :
                 SetContestChannel(g, ch) /\ GetContestChannel(guilds, g) # None =>
                     /\ guilds'[g].announcement_time = guilds[g].announcement_time
                     /\ guilds'[g].last_announcement = guilds[g].last_announcement
          /\ \A t \in Times :
                 SetAnnouncementTime(g, t) =>
                     guilds'[g].last_announcement = guilds[g].last_announcement]_vars

\* C32: no guild has two announcements delivered on one calendar date.
C32_OneAnnouncementPerDate ==
    \A g \in Guilds :
        \A i \in 1..Len(announced[g]), j \in 1..Len(announced[g]) :
            i # j => announced[g][i] # announced[g][j]

\* C33: the last-announced date of a guild is the date of an announcement
\* that was delivered to its channel.
C33_StampedOnlyWhenDelivered ==
    \A g \in Guilds :
        guilds[g].present /\ guilds[g].last_announcement # NoDate =>
            \E i \in 1..Len(announced[g]) : announced[g][i] = guilds[g].last_announcement

\* The host's clock is within the hour that starts at the time stored for g.
InWindow(gs, g, utc, zone) ==
    LET minute == (utc + zone) % MinutesPerDay
        fields == TimeFields(GetAnnouncementTime(gs, g))
        target == fields[1] * MinutesPerHour + fields[2]
    IN  target <= minute /\ minute < target + MinutesPerHour

\* C34: the scan that comes to a guild with a channel, not yet announced
\* today, within the hour that starts at its announcement time, delivers
\* the announcement (when the channel can be sent to).
C34_ScanInWindowAnnounces ==
    [][\A g \in Guilds :
          (/\ AnnounceGuild(g, "sent")
           /\ GetContestChannel(guilds, g) # None
           /\ ShouldSendAnnouncement(guilds, g, LocalDate(now, tz))
           /\ InWindow(guilds, g, now, tz)) =>
              /\ Len(announced'[g]) = Len(announced[g]) + 1
              /\ guilds'[g].last_announcement = LocalDate(now, tz)]_vars

\* C35: a listing command refuses every request whose limit is given and lies
\* outside its range (1..20 for /contests, 1..10 for /contests_today and
\* /contests_tomorrow) or whose days lies outside 1..30, and a refused request
\* leaves the store, the refresh state and the last read as they were.
OutOfRange(limit, max) == limit # NoLimit /\ (limit[1] < 1 \/ limit[1] > max)

RefusedUntouched(c) ==
    /\ reply'[c] = Refusal
    /\ UNCHANGED <<table, committed, pc, fetched, lastRead, run>>

C35_OutOfRangeIsRefused ==
    [][/\ \A d \in DaysTried, l \in LimitsTried(ContestsMaxLimit) :
            (ContestsCommand(d, l) /\ (d < 1 \/ d > MaxDays \/ OutOfRange(l, ContestsMaxLimit)))
                => RefusedUntouched("inline")
       /\ \A l \in LimitsTried(DayMaxLimit) :
            (TodayCommand(l) /\ OutOfRange(l, DayMaxLimit)) => RefusedUntouched("today")
       /\ \A l \in LimitsTried(DayMaxLimit) :
            (TomorrowCommand(l) /\ OutOfRange(l, DayMaxLimit)) => RefusedUntouched("tomorrow")]_vars

\* The same with the zero limit left out: what the range tests do establish.
C35_NonZeroOutOfRangeIsRefused ==
    [][/\ \A d \in DaysTried, l \in LimitsTried(ContestsMaxLimit) \ {<<0>>} :
            (ContestsCommand(d, l) /\ (d < 1 \/ d > MaxDays \/ OutOfRange(l, ContestsMaxLimit)))
                => RefusedUntouched("inline")
       /\ \A l \in LimitsTried(DayMaxLimit) \ {<<0>>} :
            (TodayCommand(l) /\ OutOfRange(l, DayMaxLimit)) => RefusedUntouched("today")
       /\ \A l \in LimitsTried(DayMaxLimit) \ {<<0>>} :
            (TomorrowCommand(l) /\ OutOfRange(l, DayMaxLimit)) => RefusedUntouched("tomorrow")]_vars

\* C36: once stop() has been called on the update checker, no update check
\* begins and notify_update_available is not called, also when stop() came
\* while the checker was in asyncio.sleep between two checks.
C36_NothingAfterStop == upd.late = "none"

\* A check in flight when stop() comes is the only work left: what the
\* `while self.running` test does establish is that at most one more check
\* begins after stop().
C36_AtMostOneLateCheck ==
    [][(upd.stopped /\ upd.late = "check") => upd'.checks = upd.checks]_vars

====
